---- MODULE Spec2Model ----
(***************************************************************************)
(* A model of vnats.go's Connection (src/connection.go): Connect, Close,   *)
(* the bridge interface it drives, and the Subscriber / Publisher whose    *)
(* fields and methods connection.go uses but does not define.  The parts   *)
(* connection.go only declares or calls (the subscriber's delivery loop,   *)
(* NewSubscriber, NewPublisher, Publish, the bridge's handling of new      *)
(* work) follow the repository's specification; the bridge's drain follows *)
(* the comment of bridge.Drain in connection.go.                           *)
(***************************************************************************)
EXTENDS Integers, Sequences, FiniteSets, TLC

\* ------------------------------------------------------------------ bounds
MaxSubs == 2       \* subscribers one Connection registers
MaxKeys == 2       \* distinct dedup keys (so: messages the stream can hold)
MaxOpts == 2       \* options handed to Connect

Subs == 1..MaxSubs
Keys == 1..MaxKeys
\* The calls of Close: a first one, and a second one made after or during it.
FirstCall == 1
SecondCall == 2
Closers == {FirstCall, SecondCall}
Loggers == {"logA", "logB"}

\* SubscriptionMode, src/connection.go:14-23
MultipleSubscribersAllowed == "MultipleSubscribersAllowed"
SingleSubscriberStrictMessageOrder == "SingleSubscriberStrictMessageOrder"
Modes == {MultipleSubscribersAllowed, SingleSubscriberStrictMessageOrder}

\* var NoOpLogFunc, src/connection.go:37
NoOpLogFunc == "NoOpLogFunc"

VARIABLES
  connPc,       \* "start" before Connect is called, "done" once it returned
  conn,         \* the *Connection Connect returned: NilConn or [nats, log]
  connErr,      \* the error Connect returned
  connOpts,     \* the options Connect was given (each WithLogger(l), as l)
  bridgeLog,    \* the logger newNATSBridge was handed
  bridge,       \* the bridge session: "none", "open", "drainingSubs",
                \* "drainingPubs", "closed"
  bridgeDrains, \* how often bridge.Drain() was invoked
  subscribers,  \* c.subscribers: the registered subscribers, in order
  consumerMode, \* the mode the consumer was created with ("none" before)
  drainCalls,   \* per subscriber: how often subscription.Drain() was invoked
  rawDrained,   \* per subscriber: its raw subscription is drained
  quitSent,     \* per subscriber: sends completed on its quitSignal
  chanClosed,   \* per subscriber: its quitSignal is closed
  loop,         \* per subscriber: the delivery loop: "none", "select", "handler", "exited"
  cur,          \* per subscriber: the message its handler holds (0: none)
  stream,       \* the backend's stream: dedup keys in arrival order
  status,       \* per message: "pending", "nakd", "acked", "termed"
  publisher,    \* a Publisher was created
  ret,          \* the last factory / publish call: what it was, met and returned
  closePc,      \* per Close call: where it stands
  closeIdx,     \* per Close call: the index of the range loop
  closeN,       \* per Close call: len(c.subscribers) when the range began
  closeRes,     \* per Close call: the error it returned
  crashed       \* a goroutine panicked: the process is gone

vars == <<connPc, conn, connErr, connOpts, bridgeLog, bridge, bridgeDrains, subscribers,
          consumerMode, drainCalls, rawDrained, quitSent, chanClosed, loop, cur,
          stream, status, publisher, ret, closePc, closeIdx, closeN, closeRes,
          crashed>>

connVars == <<connPc, conn, connErr, connOpts, bridgeLog>>
subVars == <<drainCalls, rawDrained, quitSent, chanClosed, loop, cur>>
msgVars == <<stream, status>>
closeVars == <<closePc, closeIdx, closeN, closeRes>>

\* ------------------------------------------------------------------ errors
\* An error value: what caused it ("nil": no error), which subscriber's drain
\* (0: none), and the message fmt.Errorf wrapped it in ("": not wrapped).
Nil == [cause |-> "nil", sub |-> 0, wrap |-> ""]
SubDrainFailure(s) == [cause |-> "subscription.Drain", sub |-> s, wrap |-> ""]
BridgeDrainFailure == [cause |-> "bridge.Drain", sub |-> 0, wrap |-> ""]
BridgeCreateFailure == [cause |-> "newNATSBridge", sub |-> 0, wrap |-> ""]

\* fmt.Errorf(msg + ": %w", err)
Errorf(msg, err) == [err EXCEPT !.wrap = msg]

NilConn == [nats |-> "nil", log |-> "nil"]

\* ------------------------------------------------------------------ Connect
\* func (c *Connection) applyOptions: each option is WithLogger(l), which sets
\* c.log = l; the options are applied in order.
RECURSIVE applyOptions(_, _)
applyOptions(c, options) ==
  IF options = <<>> THEN c
  ELSE applyOptions([c EXCEPT !.log = Head(options)], Tail(options))

\* A Connect that hands back the half-built Connection with the error.
ConnectFailed_Partial(c, err) ==
  [conn |-> c, err |-> Errorf("NATS Connection could not be created", err)]

\* What Connect returns when newNATSBridge fails: return nil, fmt.Errorf(...)
ConnectFailed(c, err) ==
  [conn |-> NilConn,
   err |-> Errorf("NATS Connection could not be created", err)]

\* What Connect returns when newNATSBridge succeeds: return conn, nil
ConnectSucceeded(c) ==
  [conn |-> [c EXCEPT !.nats = "bridge"], err |-> Nil]

\* A Connect that creates the bridge first and applies the options after.
LoggerForBridge_BeforeOptions(fresh, configured) == fresh.log

\* newNATSBridge(servers, conn.log) runs after conn.applyOptions(options...):
\* it is handed the logger of the configured Connection.
LoggerForBridge(fresh, configured) == configured.log

OptionLists == UNION {[1..n -> Loggers] : n \in 0..MaxOpts}

Connect(options, bridgeOk) ==
  /\ connPc = "start"
  /\ LET fresh == [nats |-> "nil", log |-> NoOpLogFunc]
         c == applyOptions(fresh, options)
         r == IF bridgeOk THEN ConnectSucceeded(c)
              ELSE ConnectFailed(c, BridgeCreateFailure)
     IN /\ bridgeLog' = LoggerForBridge(fresh, c)
        /\ connOpts' = options
        /\ conn' = r.conn
        /\ connErr' = r.err
        /\ bridge' = IF bridgeOk THEN "open" ELSE "none"
  /\ connPc' = "done"
  /\ UNCHANGED <<bridgeDrains, subscribers, consumerMode, subVars, msgVars,
                 publisher, ret, closeVars, crashed>>

\* The caller holds a usable *Connection and the process is alive.
Connected == connPc = "done" /\ connErr = Nil /\ ~crashed

\* ------------------------------------------------------------------ the bridge
\* The bridge accepts new work (create a subscription, ensure a stream) only
\* while its session is open: a drain stops it accepting new work.
BridgeAccepts == bridge = "open"

\* A bridge that refuses a publish only once its session is closed.
PublishMsg_UntilClosed(k, backendOk) ==
  LET ok == backendOk /\ bridge \in {"open", "drainingSubs", "drainingPubs"}
  IN [ok |-> ok,
      dup |-> ok /\ (\E i \in 1..Len(stream) : stream[i] = k),
      stream |-> IF ok /\ ~(\E i \in 1..Len(stream) : stream[i] = k)
                 THEN Append(stream, k) ELSE stream]

\* A backend without a dedup window: every accepted publish is stored.
PublishMsg_NoDedup(k, backendOk) ==
  LET ok == backendOk /\ bridge \in {"open", "drainingSubs"}
  IN [ok |-> ok,
      dup |-> ok /\ (\E i \in 1..Len(stream) : stream[i] = k),
      stream |-> IF ok THEN Append(stream, k) ELSE stream]

\* bridge.PublishMsg.  Drain's comment: the subscriptions are put into a drain
\* state at once; "upon completion, the publishers will be drained and can not
\* publish any additional messages".  So a publish can still be accepted while
\* the subscriptions drain, and none is from then on.  The backend keeps one
\* message per dedup key.
PublishMsg(k, backendOk) ==
  LET ok == backendOk /\ bridge \in {"open", "drainingSubs"}
  IN [ok |-> ok,
      dup |-> ok /\ (\E i \in 1..Len(stream) : stream[i] = k),
      stream |-> IF ok /\ ~(\E i \in 1..Len(stream) : stream[i] = k)
                 THEN Append(stream, k) ELSE stream]

\* bridge.CreateSubscription: fails once the session drains, on a backend
\* rejection, and when the consumer exists with the other mode.
CreateSubscription(mode, backendOk) ==
  backendOk /\ BridgeAccepts /\ consumerMode \in {"none", mode}

\* bridge.FetchOrAddStream
FetchOrAddStream(backendOk) == backendOk /\ BridgeAccepts

\* Some call of Close has returned nil.
ClosedOk == \E c \in Closers : closePc[c] = "done" /\ closeRes[c] = Nil

\* What a factory or publish call leaves for its caller: the operation, whether
\* it succeeded, and what it met (a Connection already closed, the bridge's
\* state; for an accepted publish, a dedup key the stream already held).
Returned(op, ok) ==
  [op |-> op, ok |-> ok, closed |-> ClosedOk, bridge |-> bridge, dup |-> FALSE]

\* ------------------------------------------------------------------ factories
\* A NewSubscriber that registers the Subscriber before it knows whether the
\* subscription was created.
NewSubscriber_RegistersOnFailure(mode, backendOk) ==
  /\ Connected
  /\ LET created == CreateSubscription(mode, backendOk)
         s == Len(subscribers) + 1
     IN /\ s <= MaxSubs
        /\ subscribers' = Append(subscribers, s)
        /\ consumerMode' = IF created THEN mode ELSE consumerMode
        /\ loop' = [loop EXCEPT ![s] = IF created THEN "select" ELSE @]
        /\ ret' = Returned("NewSubscriber", created)
  /\ UNCHANGED <<connVars, bridge, bridgeDrains, drainCalls, rawDrained,
                 quitSent, chanClosed, cur, msgVars, publisher, closeVars,
                 crashed>>

\* NewSubscriber: the subscription is created first; a Subscriber is appended
\* to the Connection's list, and its delivery loop started, only then.
NewSubscriber(mode, backendOk) ==
  /\ Connected
  /\ LET created == CreateSubscription(mode, backendOk)
         s == Len(subscribers) + 1
     IN IF created
        THEN /\ s <= MaxSubs
             /\ subscribers' = Append(subscribers, s)
             /\ consumerMode' = mode
             /\ loop' = [loop EXCEPT ![s] = "select"]
             /\ ret' = Returned("NewSubscriber", TRUE)
        ELSE /\ ret' = Returned("NewSubscriber", FALSE)
             /\ UNCHANGED <<subscribers, consumerMode, loop>>
  /\ UNCHANGED <<connVars, bridge, bridgeDrains, drainCalls, rawDrained,
                 quitSent, chanClosed, cur, msgVars, publisher, closeVars,
                 crashed>>

NewPublisher(backendOk) ==
  /\ Connected
  /\ LET created == FetchOrAddStream(backendOk)
     IN /\ publisher' = (publisher \/ created)
        /\ ret' = Returned("NewPublisher", created)
  /\ UNCHANGED <<connVars, bridge, bridgeDrains, subscribers, consumerMode,
                 subVars, msgVars, closeVars, crashed>>

Publish(k, backendOk) ==
  /\ Connected
  /\ publisher
  /\ LET r == PublishMsg(k, backendOk)
     IN /\ stream' = r.stream
        /\ ret' = [Returned("Publish", r.ok) EXCEPT !.dup = r.dup]
  /\ UNCHANGED <<connVars, bridge, bridgeDrains, subscribers, consumerMode,
                 subVars, status, publisher, closeVars, crashed>>

\* ------------------------------------------------------------------ delivery
Registered(s) == \E i \in 1..Len(subscribers) : subscribers[i] = s
InStream(k) == \E i \in 1..Len(stream) : stream[i] = k
Pos(k) == CHOOSE i \in 1..Len(stream) : stream[i] = k
Resolved(k) == status[k] \in {"acked", "termed"}
InFlight(k) == \E s \in Subs : loop[s] = "handler" /\ cur[s] = k
Earlier(j, k) == InStream(j) /\ InStream(k) /\ Pos(j) < Pos(k)

\* A consumer that hands out any unresolved message, whatever its mode.
Deliverable_AnyOrder(k) == InStream(k) /\ ~Resolved(k) /\ ~InFlight(k)

\* A consumer that keeps strict order in both modes.
Deliverable_AlwaysStrict(k) ==
  /\ InStream(k)
  /\ ~Resolved(k)
  /\ ~InFlight(k)
  /\ \A j \in Keys : Earlier(j, k) => Resolved(j)

\* The message the consumer hands out next.  Strict order: the earliest
\* unresolved message, and only while no delivery of it is under way.
\* Multiple subscribers: the earliest message not yet delivered, or any
\* message waiting for its redelivery.
Deliverable(k) ==
  /\ InStream(k)
  /\ ~Resolved(k)
  /\ ~InFlight(k)
  /\ IF consumerMode = SingleSubscriberStrictMessageOrder
     THEN \A j \in Keys : Earlier(j, k) => Resolved(j)
     ELSE \/ status[k] = "nakd"
          \/ \A j \in Keys : Earlier(j, k) /\ status[j] = "pending" => InFlight(j)

\* A raw subscription hands out messages until it is drained, by its own
\* Drain or by the bridge's ("all subscriptions will immediately be put into a
\* drain state").
SubscriptionActive(s) == ~rawDrained[s] /\ bridge = "open"

\* The delivery loop pulls the next message and invokes the handler.
Pull(s, k) ==
  /\ ~crashed
  /\ Registered(s)
  /\ loop[s] = "select"
  /\ SubscriptionActive(s)
  /\ Deliverable(k)
  /\ loop' = [loop EXCEPT ![s] = "handler"]
  /\ cur' = [cur EXCEPT ![s] = k]
  /\ UNCHANGED <<connVars, bridge, bridgeDrains, subscribers, consumerMode,
                 drainCalls, rawDrained, quitSent, chanClosed, msgVars,
                 publisher, ret, closeVars, crashed>>

Outcomes == {"success", "recoverable", "terminal"}

\* A loop that asks for redelivery on every error, terminal ones included.
Resolve_TerminalNaks(outcome) ==
  CASE outcome = "success" -> "acked"
    [] outcome = "recoverable" -> "nakd"
    [] outcome = "terminal" -> "nakd"

\* Ack / Nak / Terminate, chosen by the handler's result.
Resolve(outcome) ==
  CASE outcome = "success" -> "acked"
    [] outcome = "recoverable" -> "nakd"
    [] outcome = "terminal" -> "termed"

\* The handler returns; the loop resolves the message and selects again.
HandlerReturn(s, outcome) ==
  /\ ~crashed
  /\ loop[s] = "handler"
  /\ status' = [status EXCEPT ![cur[s]] = Resolve(outcome)]
  /\ loop' = [loop EXCEPT ![s] = "select"]
  /\ cur' = [cur EXCEPT ![s] = 0]
  /\ UNCHANGED <<connVars, bridge, bridgeDrains, subscribers, consumerMode,
                 drainCalls, rawDrained, quitSent, chanClosed, stream,
                 publisher, ret, closeVars, crashed>>

\* ------------------------------------------------------------------ Close
\* The subscriber a Close call's range loop stands at.
CloseSub(c) == subscribers[closeIdx[c]]

\* A goroutine panics (send on, or close of, a closed channel): the process dies.
Panic(c) ==
  /\ crashed' = TRUE
  /\ closePc' = [closePc EXCEPT ![c] = "panic"]
  /\ UNCHANGED <<closeIdx, closeN, closeRes>>

\* Close is called: `for _, sub := range c.subscribers` reads the slice once.
CloseBegin(c) ==
  /\ Connected
  /\ closePc[c] = "idle"
  /\ \A d \in Closers : d < c => closePc[d] # "idle"
  /\ closeN' = [closeN EXCEPT ![c] = Len(subscribers)]
  /\ closeIdx' = [closeIdx EXCEPT ![c] = 1]
  /\ closePc' = [closePc EXCEPT ![c] = IF Len(subscribers) = 0 THEN "bridge" ELSE "drain"]
  /\ UNCHANGED <<connVars, bridge, bridgeDrains, subscribers, consumerMode,
                 subVars, msgVars, publisher, ret, closeRes, crashed>>

\* A Close that breaks out of the range loop on a failed drain and goes on
\* to drain the bridge.
SubDrainFailed_ThenBridge(c, err) == [pc |-> "bridge", res |-> err]

\* A Close that logs the failed drain and carries on with the subscriber.
SubDrainFailed_CarryOn(c, err) == [pc |-> "send", res |-> err]

\* A Close that swallows the failed drain and reports success.
SubDrainFailed_Swallowed(c, err) == [pc |-> "done", res |-> Nil]

\* if err := sub.subscription.Drain(); err != nil { return err }
SubDrainFailed(c, err) == [pc |-> "done", res |-> err]

\* A Close that drains the subscriptions and leaves the quit channels alone.
SubDrainSucceeded_SkipQuit(c) == [pc |-> "bridge", res |-> Nil]

\* A Close that closes the quit channel without having sent on it.
SubDrainSucceeded_NoSend(c) == [pc |-> "close", res |-> Nil]

\* sub.subscription.Drain() returned nil: on to `sub.quitSignal <- true`
SubDrainSucceeded(c) == [pc |-> "send", res |-> Nil]

CloseDrainSub(c, drainOk) ==
  /\ ~crashed
  /\ closePc[c] = "drain"
  /\ LET s == CloseSub(c)
         r == IF drainOk THEN SubDrainSucceeded(c)
              ELSE SubDrainFailed(c, SubDrainFailure(s))
     IN /\ drainCalls' = [drainCalls EXCEPT ![s] = @ + 1]
        /\ rawDrained' = [rawDrained EXCEPT ![s] = @ \/ drainOk]
        /\ closePc' = [closePc EXCEPT ![c] = r.pc]
        /\ closeRes' = [closeRes EXCEPT ![c] = r.res]
  /\ UNCHANGED <<connVars, bridge, bridgeDrains, subscribers, consumerMode,
                 quitSent, chanClosed, loop, cur, msgVars, publisher, ret,
                 closeIdx, closeN, crashed>>

\* Where Close goes once `sub.quitSignal <- true` completed: close(sub.quitSignal)
AfterQuitSent == "close"

\* A quit channel with a buffer: the send completes with no receiver.
CloseSendQuit_Buffered(c) ==
  /\ ~crashed
  /\ closePc[c] = "send"
  /\ LET s == CloseSub(c)
     IN IF chanClosed[s]
        THEN /\ Panic(c)
             /\ UNCHANGED quitSent
        ELSE /\ quitSent' = [quitSent EXCEPT ![s] = @ + 1]
             /\ closePc' = [closePc EXCEPT ![c] = AfterQuitSent]
             /\ UNCHANGED <<closeIdx, closeN, closeRes, crashed>>
  /\ UNCHANGED <<connVars, bridge, bridgeDrains, subscribers, consumerMode,
                 drainCalls, rawDrained, chanClosed, loop, cur, msgVars,
                 publisher, ret>>

\* sub.quitSignal <- true: the channel is unbuffered, so the send completes
\* when the delivery loop, back at its select, receives it (and exits); a send
\* on a closed channel panics.
CloseSendQuit(c) ==
  /\ ~crashed
  /\ closePc[c] = "send"
  /\ LET s == CloseSub(c)
     IN IF chanClosed[s]
        THEN /\ Panic(c)
             /\ UNCHANGED <<quitSent, loop>>
        ELSE /\ loop[s] = "select"
             /\ loop' = [loop EXCEPT ![s] = "exited"]
             /\ quitSent' = [quitSent EXCEPT ![s] = @ + 1]
             /\ closePc' = [closePc EXCEPT ![c] = AfterQuitSent]
             /\ UNCHANGED <<closeIdx, closeN, closeRes, crashed>>
  /\ UNCHANGED <<connVars, bridge, bridgeDrains, subscribers, consumerMode,
                 drainCalls, rawDrained, chanClosed, cur, msgVars, publisher,
                 ret>>

\* A range loop that stops one subscriber short.
AfterIteration_OneShort(i, n) == IF i + 1 < n THEN "drain" ELSE "bridge"

\* Where Close goes after the body of the range loop ran for index i of n.
AfterIteration(i, n) == IF i < n THEN "drain" ELSE "bridge"

\* close(sub.quitSignal), and the range loop moves on.
CloseQuitChan(c) ==
  /\ ~crashed
  /\ closePc[c] = "close"
  /\ LET s == CloseSub(c)
     IN IF chanClosed[s]
        THEN /\ Panic(c)
             /\ UNCHANGED chanClosed
        ELSE /\ chanClosed' = [chanClosed EXCEPT ![s] = TRUE]
             /\ closePc' = [closePc EXCEPT ![c] = AfterIteration(closeIdx[c], closeN[c])]
             /\ closeIdx' = [closeIdx EXCEPT ![c] = @ + 1]
             /\ UNCHANGED <<closeN, closeRes, crashed>>
  /\ UNCHANGED <<connVars, bridge, bridgeDrains, subscribers, consumerMode,
                 drainCalls, rawDrained, quitSent, loop, cur, msgVars,
                 publisher, ret>>

\* A Close that returns the bridge's error as it is.
BridgeDrainFailed_Bare(err) == err

\* if err := c.nats.Drain(); err != nil { return fmt.Errorf("...: %w", err) }
BridgeDrainFailed(err) == Errorf("NATS Connection could not be closed", err)

\* A Close that returns nil without draining the bridge.
CloseDrainBridge_Skipped(c, drainOk) ==
  /\ ~crashed
  /\ closePc[c] = "bridge"
  /\ closeRes' = [closeRes EXCEPT ![c] = Nil]
  /\ closePc' = [closePc EXCEPT ![c] = "done"]
  /\ UNCHANGED <<connVars, bridge, bridgeDrains, subscribers, consumerMode,
                 subVars, msgVars, publisher, ret, closeIdx, closeN, crashed>>

\* A Close that calls the bridge's Drain and drops its error.
CloseDrainBridge_ErrorDropped(c, drainOk) ==
  /\ ~crashed
  /\ closePc[c] = "bridge"
  /\ bridgeDrains' = bridgeDrains + 1
  /\ bridge' = IF drainOk /\ bridge = "open" THEN "drainingSubs" ELSE bridge
  /\ closeRes' = [closeRes EXCEPT ![c] = Nil]
  /\ closePc' = [closePc EXCEPT ![c] = "done"]
  /\ UNCHANGED <<connVars, subscribers, consumerMode, subVars, msgVars,
                 publisher, ret, closeIdx, closeN, crashed>>

\* c.nats.Drain(), then Close returns.
CloseDrainBridge(c, drainOk) ==
  /\ ~crashed
  /\ closePc[c] = "bridge"
  /\ bridgeDrains' = bridgeDrains + 1
  /\ bridge' = IF drainOk /\ bridge = "open" THEN "drainingSubs" ELSE bridge
  /\ closeRes' = [closeRes EXCEPT ![c] =
                    IF drainOk THEN Nil ELSE BridgeDrainFailed(BridgeDrainFailure)]
  /\ closePc' = [closePc EXCEPT ![c] = "done"]
  /\ UNCHANGED <<connVars, subscribers, consumerMode, subVars, msgVars,
                 publisher, ret, closeIdx, closeN, crashed>>

\* The bridge's drain runs on: once the subscriptions are drained, the
\* publishers are.
BridgeSubsDrained ==
  /\ ~crashed
  /\ bridge = "drainingSubs"
  /\ bridge' = "drainingPubs"
  /\ UNCHANGED <<connVars, bridgeDrains, subscribers, consumerMode, subVars,
                 msgVars, publisher, ret, closeVars, crashed>>

\* "Upon draining of the publishers, the Connection will be closed."
BridgePubsDrained ==
  /\ ~crashed
  /\ bridge = "drainingPubs"
  /\ bridge' = "closed"
  /\ UNCHANGED <<connVars, bridgeDrains, subscribers, consumerMode, subVars,
                 msgVars, publisher, ret, closeVars, crashed>>

\* ------------------------------------------------------------------ the system
Init ==
  /\ connPc = "start"
  /\ conn = NilConn
  /\ connErr = Nil
  /\ connOpts = <<>>
  /\ bridgeLog = "nil"
  /\ bridge = "none"
  /\ bridgeDrains = 0
  /\ subscribers = <<>>
  /\ consumerMode = "none"
  /\ drainCalls = [s \in Subs |-> 0]
  /\ rawDrained = [s \in Subs |-> FALSE]
  /\ quitSent = [s \in Subs |-> 0]
  /\ chanClosed = [s \in Subs |-> FALSE]
  /\ loop = [s \in Subs |-> "none"]
  /\ cur = [s \in Subs |-> 0]
  /\ stream = <<>>
  /\ status = [k \in Keys |-> "pending"]
  /\ publisher = FALSE
  /\ ret = [op |-> "none", ok |-> TRUE, closed |-> FALSE, bridge |-> "none",
            dup |-> FALSE]
  /\ closePc = [c \in Closers |-> "idle"]
  /\ closeIdx = [c \in Closers |-> 0]
  /\ closeN = [c \in Closers |-> 0]
  /\ closeRes = [c \in Closers |-> Nil]
  /\ crashed = FALSE

Factories ==
  \/ \E mode \in Modes, backendOk \in BOOLEAN : NewSubscriber(mode, backendOk)
  \/ \E backendOk \in BOOLEAN : NewPublisher(backendOk)
  \/ \E k \in Keys, backendOk \in BOOLEAN : Publish(k, backendOk)

Delivery ==
  \/ \E s \in Subs, k \in Keys : Pull(s, k)
  \/ \E s \in Subs, outcome \in Outcomes : HandlerReturn(s, outcome)

Close(c) ==
  \/ CloseBegin(c)
  \/ \E drainOk \in BOOLEAN : CloseDrainSub(c, drainOk)
  \/ CloseSendQuit(c)
  \/ CloseQuitChan(c)
  \/ \E drainOk \in BOOLEAN : CloseDrainBridge(c, drainOk)

\* The life of one Connection: Connect without options, publishers and
\* subscribers at work, one call of Close.
Next ==
  \/ \E bridgeOk \in BOOLEAN : Connect(<<>>, bridgeOk)
  \/ Factories
  \/ Delivery
  \/ Close(FirstCall)
  \/ BridgeSubsDrained
  \/ BridgePubsDrained

Spec == Init /\ [][Next]_vars

\* Connect under every list of options, and the factories of the Connection
\* it returns.
NextConnect ==
  \/ \E options \in OptionLists, bridgeOk \in BOOLEAN : Connect(options, bridgeOk)
  \/ Factories

SpecConnect == Init /\ [][NextConnect]_vars

\* Close works on the subscribers and the bridge, never on a message: the
\* specifications that study Close alone publish under one dedup key.
OneKey == CHOOSE k \in Keys : TRUE

NextCore ==
  \/ \E bridgeOk \in BOOLEAN : Connect(<<>>, bridgeOk)
  \/ \E mode \in Modes, backendOk \in BOOLEAN : NewSubscriber(mode, backendOk)
  \/ \E backendOk \in BOOLEAN : NewPublisher(backendOk)
  \/ \E backendOk \in BOOLEAN : Publish(OneKey, backendOk)
  \/ Delivery
  \/ Close(FirstCall)
  \/ BridgeSubsDrained
  \/ BridgePubsDrained

\* The life of one Connection on which Close is called a second time, after
\* or during the first call.
NextReclose ==
  \/ NextCore
  \/ Close(SecondCall)

SpecReclose == Init /\ [][NextReclose]_vars

\* One call of Close under the scheduling the Go runtime gives: a goroutine
\* that can run does run (the steps of Close, a delivery loop leaving its
\* handler), every drain call returns, every handler invocation terminates.
Fairness ==
  /\ WF_vars(Close(FirstCall))
  /\ \A s \in Subs : WF_vars(\E outcome \in Outcomes : HandlerReturn(s, outcome))

SpecLive == Init /\ [][NextCore]_vars /\ Fairness

\* ------------------------------------------------------------------ claims
\* The subscribers a Close call ranges over: those registered when it began.
Ranged(c) == {subscribers[i] : i \in 1..closeN[c]}
HasReturned(c) == closePc[c] = "done"

\* A Close call got as far as the bridge's Drain: it returned, and not with
\* a subscriber's error.
DrainedBridge(c) == HasReturned(c) /\ closeRes[c].cause # "subscription.Drain"

\* C1: Close invokes the bridge's Drain only once the raw-subscription Drain
\* of every subscriber registered when Close was called has been invoked and
\* has returned successfully.
C1_BridgeDrainAfterSubscribers ==
  /\ bridgeDrains > 0 => \E c \in Closers : DrainedBridge(c)
  /\ \A c \in Closers :
       closePc[c] = "bridge" \/ DrainedBridge(c) =>
         \A s \in Ranged(c) : drainCalls[s] >= 1 /\ rawDrained[s]

\* Close drained the bridge after draining two subscribers.
C1_Witness ==
  /\ bridgeDrains = 1
  /\ HasReturned(FirstCall)
  /\ closeN[FirstCall] = 2
  /\ \A s \in Ranged(FirstCall) : rawDrained[s]

\* C2: when a subscriber's Drain fails during Close, Close returns that
\* subscriber's error, it is the first failing one (every subscriber before
\* it was drained), no subscriber after it is drained or quit-signalled, and
\* the bridge's Drain is not invoked.
C2_FailFast ==
  \A s \in Subs :
    drainCalls[s] > 0 /\ ~rawDrained[s] =>
      /\ HasReturned(FirstCall)
      /\ closeRes[FirstCall].cause = "subscription.Drain"
      /\ closeRes[FirstCall].sub = s
      /\ \A j \in Ranged(FirstCall) :
           /\ j < s => rawDrained[j] /\ quitSent[j] = 1
           /\ j > s => drainCalls[j] = 0 /\ quitSent[j] = 0 /\ ~chanClosed[j]
      /\ bridgeDrains = 0
      /\ bridge = "open"

\* Close failed at the first of two subscribers.
C2_Witness ==
  /\ HasReturned(FirstCall)
  /\ closeN[FirstCall] = 2
  /\ closeRes[FirstCall] = SubDrainFailure(1)
  /\ loop[2] \in {"select", "handler"}
\* C3: once a Close call has returned nil, no delivery loop invokes the
\* handler again, whatever is still pending on the backend.
C3_NoHandlerAfterClose ==
  [][ClosedOk => \A s \in Subs : loop'[s] = "handler" => loop[s] = "handler"]_vars

\* Close returned nil with two subscribers registered and a message of the
\* stream still unresolved.
C3_Witness ==
  /\ HasReturned(FirstCall)
  /\ closeRes[FirstCall] = Nil
  /\ closeN[FirstCall] = 2
  /\ \E k \in Keys : InStream(k) /\ ~Resolved(k)

\* C4: in SingleSubscriberStrictMessageOrder mode the handler holds a message
\* only when every message enqueued before it is acked or terminated; a
\* message that was nak'd is therefore delivered again before any later one.
C4_StrictOrder ==
  consumerMode = SingleSubscriberStrictMessageOrder =>
    \A s \in Subs, k \in Keys :
      loop[s] = "handler" /\ cur[s] = k =>
        \A j \in Keys : Earlier(j, k) => Resolved(j)

\* Strict mode: m1 failed and is with the handler again, m2 waits behind it.
C4_Witness ==
  /\ consumerMode = SingleSubscriberStrictMessageOrder
  /\ \E s \in Subs, k \in Keys, j \in Keys :
       /\ loop[s] = "handler" /\ cur[s] = k
       /\ status[k] = "nakd"
       /\ Earlier(k, j)

\* The next message of the stream that was not delivered yet.
NextFresh(k) ==
  /\ InStream(k)
  /\ status[k] = "pending"
  /\ ~InFlight(k)
  /\ \A j \in Keys : Earlier(j, k) /\ status[j] = "pending" => InFlight(j)

Passed(c, s) ==
  /\ \E i \in 1..closeN[c] : subscribers[i] = s /\ i < closeIdx[c]
  /\ closePc[c] \notin {"idle", "panic"}

\* C6: per subscriber Close drains the raw subscription, then sends the quit
\* signal, then closes the quit channel; the signal is sent once, never twice.
C6_DrainSendClose ==
  /\ \A s \in Subs :
       /\ quitSent[s] <= 1
       /\ quitSent[s] = 1 => rawDrained[s]
       /\ chanClosed[s] => quitSent[s] = 1
       /\ \A c \in Closers : Passed(c, s) => chanClosed[s]
  /\ \A c \in Closers :
       /\ closePc[c] = "send" => rawDrained[CloseSub(c)]
       /\ closePc[c] = "close" => quitSent[CloseSub(c)] = 1

\* A subscriber was drained, signalled once and had its quit channel closed,
\* and Close moved on to the next one.
C6_Witness ==
  /\ closePc[FirstCall] = "drain"
  /\ closeIdx[FirstCall] = 2
  /\ rawDrained[1] /\ quitSent[1] = 1 /\ chanClosed[1]

\* C7 as stated: every error Close returns wraps its cause.
C7_EveryErrorWrapped ==
  \A c \in Closers :
    HasReturned(c) /\ closeRes[c] # Nil => closeRes[c].wrap # ""

\* C7, amended: the error of the bridge's Drain is returned wrapped
\* ("NATS Connection could not be closed: %w"); the error of a subscriber's
\* Drain is returned as it is.
C7_BridgeErrorWrapped ==
  \A c \in Closers :
    HasReturned(c) /\ closeRes[c] # Nil =>
      \/ closeRes[c] = Errorf("NATS Connection could not be closed", BridgeDrainFailure)
      \/ \E s \in Ranged(c) : closeRes[c] = SubDrainFailure(s)

\* Close returned the bridge's failure.
C7_Witness ==
  /\ HasReturned(FirstCall)
  /\ closeRes[FirstCall].cause = "bridge.Drain"
  /\ closeN[FirstCall] > 0

\* C8: once Close has returned nil, every NewSubscriber and NewPublisher call
\* fails and the subscriber list does not grow.
C8_NoFactoryAfterClose ==
  /\ [](ret.op \in {"NewSubscriber", "NewPublisher"} /\ ret.closed => ~ret.ok)
  /\ [][ClosedOk => subscribers' = subscribers /\ publisher' = publisher]_vars

\* NewSubscriber was called on a closed Connection.
C8_Witness == ret.op = "NewSubscriber" /\ ret.closed /\ ~ret.ok

C10_ConnectAllOrNothing ==
  connPc = "done" =>
    \/ conn # NilConn /\ conn.nats = "bridge" /\ connErr = Nil
    \/ /\ conn = NilConn
       /\ connErr = Errorf("NATS Connection could not be created", BridgeCreateFailure)

\* Connect failed, with an option given.
C10_Witness == connPc = "done" /\ conn = NilConn /\ connErr # Nil /\ bridgeLog \in Loggers

\* ---------------------------------------------------------------------------
\* C11.  A NewSubscriber or NewPublisher call that fails changes nothing but
\* what it returns: the Connection, its bridge, its subscriber list and its
\* publisher stay as they were, so the Connection is as usable as before.  The
\* list holds the subscribers of the successful calls, in creation order, each
\* with a delivery loop; Close drains only subscribers of the list, and a
\* Close that read the whole list and went through it drained each one once.
FactoryFailed ==
  /\ \/ \E mode \in Modes, backendOk \in BOOLEAN : NewSubscriber(mode, backendOk)
     \/ \E backendOk \in BOOLEAN : NewPublisher(backendOk)
  /\ ~ret'.ok

C11_Registry ==
  /\ \A i \in 1..Len(subscribers) : subscribers[i] = i
  /\ \A s \in Subs : Registered(s) <=> loop[s] # "none"
  /\ \A s \in Subs : drainCalls[s] > 0 => s \in Ranged(FirstCall)
  /\ DrainedBridge(FirstCall) /\ closeN[FirstCall] = Len(subscribers)
       => \A s \in Subs : Registered(s) <=> drainCalls[s] = 1

C11_FailedFactoryChangesNothing ==
  /\ []C11_Registry
  /\ [][FactoryFailed =>
          UNCHANGED <<connVars, bridge, bridgeDrains, subscribers, consumerMode,
                      subVars, msgVars, publisher, closeVars, crashed>>]_vars

\* A NewSubscriber call failed on an open bridge, one Subscriber is
\* registered, and Close drained exactly that one.
C11_Witness ==
  /\ ret.op = "NewSubscriber" /\ ~ret.ok /\ ret.bridge = "open" /\ ~ret.closed
  /\ Len(subscribers) = 1
  /\ DrainedBridge(FirstCall) /\ closeN[FirstCall] = 1
  /\ drainCalls[1] = 1

\* ---------------------------------------------------------------------------
\* C12.  The stream holds at most one message per dedup key, however often
\* the key is published; a Publish call is one attempted send: it stores at
\* most one message, at the moment of the call, and a failed call stores none
\* (nothing is kept back to be sent later).
Occurrences(k) == Cardinality({i \in 1..Len(stream) : stream[i] = k})

C12_OneMessagePerKey ==
  /\ [](\A k \in Keys : Occurrences(k) <= 1)
  /\ [][stream' # stream =>
          /\ \E k \in Keys, backendOk \in BOOLEAN : Publish(k, backendOk)
          /\ ret'.ok /\ ~ret'.dup
          /\ \E k \in Keys : ~InStream(k) /\ stream' = Append(stream, k)]_vars

\* A publish of a key the stream already holds was accepted.
C12_Witness ==
  /\ ret.op = "Publish" /\ ret.ok /\ ret.dup
  /\ \E k \in Keys : Occurrences(k) = 1

\* ---------------------------------------------------------------------------
\* C13.  The logger the bridge factory is handed is the one of the last
\* WithLogger option, and NoOpLogFunc when Connect is given no option.
C13_BridgeGetsConfiguredLogger ==
  connPc = "done" =>
    bridgeLog = IF connOpts = <<>> THEN NoOpLogFunc
                ELSE connOpts[Len(connOpts)]

\* Connect was given two different loggers.
C13_Witness ==
  /\ connPc = "done"
  /\ Len(connOpts) = 2 /\ connOpts[1] # connOpts[2]
  /\ bridgeLog = connOpts[2]

\* ---------------------------------------------------------------------------
\* C14.  When a handler returns, its message gets the one outcome its result
\* selects: success acks, a recoverable error naks, a terminal error
\* terminates.  A message acked or terminated keeps that outcome and is in no
\* handler, now or later.
C14_OneOutcomePerDelivery ==
  /\ [](\A k \in Keys : Resolved(k) => ~InFlight(k))
  /\ [][\A s \in Subs :
          /\ HandlerReturn(s, "success") => status'[cur[s]] = "acked"
          /\ HandlerReturn(s, "recoverable") => status'[cur[s]] = "nakd"
          /\ HandlerReturn(s, "terminal") => status'[cur[s]] = "termed"]_vars
  /\ [][\A k \in Keys :
          Resolved(k) =>
            /\ status'[k] = status[k]
            /\ \A t \in Subs : ~(loop'[t] = "handler" /\ cur'[t] = k)]_vars

\* One message was acked and another terminated, and every handler has
\* returned.
C14_Witness ==
  \E j, k \in Keys :
    /\ status[j] = "acked" /\ status[k] = "termed"
    /\ \A s \in Subs : Registered(s) => loop[s] = "select"

\* ---------------------------------------------------------------------------
\* C15 as stated: on a Connection with a subscriber, the second Close call
\* never returns nil.
C15_SecondCloseNeverNil ==
  closeN[FirstCall] >= 1 /\ closeN[SecondCall] >= 1 =>
    ~(HasReturned(SecondCall) /\ closeRes[SecondCall] = Nil)

\* C15.  Of two Close calls that both found a subscriber, at most one
\* returns nil.  Once one has returned nil the other never reaches the bridge
\* drain: it stands at the first subscriber, whose raw subscription it drains
\* again, and from there it returns that drain's error or panics on the quit
\* channel the first call closed.
C15_AtMostOneCloseSucceeds ==
  \A c, d \in Closers :
    c # d /\ closeN[c] >= 1 /\ closeN[d] >= 1
          /\ HasReturned(c) /\ closeRes[c] = Nil =>
      /\ closeIdx[d] = 1
      /\ closePc[d] \in {"drain", "send", "done", "panic"}
      /\ closePc[d] # "drain" => drainCalls[subscribers[1]] = 2
      /\ closePc[d] = "done" => closeRes[d] = SubDrainFailure(subscribers[1])
      /\ closePc[d] = "panic" => chanClosed[subscribers[1]]

\* The first call returned nil; the second drained the subscription again and
\* panicked on the closed quit channel.
C15_Witness ==
  /\ HasReturned(FirstCall) /\ closeRes[FirstCall] = Nil
  /\ closeN[FirstCall] >= 1
  /\ closePc[SecondCall] = "panic"
  /\ drainCalls[1] = 2

\* ---------------------------------------------------------------------------
\* C16.  Under fair scheduling, with drains that return and handlers that
\* terminate, a quit signal Close sends is received and a Close call that
\* began returns.  Close gets past a subscriber only by the delivery loop
\* receiving the quit signal: while the loop is in its handler the send
\* cannot complete.
C16_CloseTerminates ==
  /\ (closePc[FirstCall] = "send") ~> (closePc[FirstCall] = "close")
  /\ (closePc[FirstCall] # "idle") ~> HasReturned(FirstCall)
  /\ [](\A s \in Subs : Passed(FirstCall, s) => loop[s] = "exited")
  /\ [](closePc[FirstCall] = "send" /\ loop[CloseSub(FirstCall)] # "select"
          => ~ENABLED CloseSendQuit(FirstCall))

\* Close stands at its send while the subscriber's handler runs.
C16_Witness ==
  /\ closePc[FirstCall] = "send"
  /\ loop[CloseSub(FirstCall)] = "handler"

\* ---------------------------------------------------------------------------
\* C17.  A subscriber whose drain failed leaves Close returned with that
\* error and the Connection split: the subscribers before it drained,
\* signalled once, their quit channels closed and their loops gone; that
\* subscriber and every one after it without a quit signal, their quit
\* channels open and their loops running; the bridge not drained.
C17_SplitStateAfterFailedDrain ==
  \A k \in Subs :
    drainCalls[k] > 0 /\ ~rawDrained[k] =>
      /\ HasReturned(FirstCall) /\ closeRes[FirstCall] = SubDrainFailure(k)
      /\ \A j \in Subs :
           Registered(j) =>
             IF j < k
             THEN /\ rawDrained[j] /\ quitSent[j] = 1 /\ chanClosed[j]
                  /\ loop[j] = "exited"
             ELSE /\ quitSent[j] = 0 /\ ~chanClosed[j]
                  /\ loop[j] \in {"select", "handler"}
      /\ bridgeDrains = 0 /\ bridge = "open"

\* Close failed at the second of two subscribers.
C17_Witness ==
  /\ HasReturned(FirstCall)
  /\ closeN[FirstCall] = 2
  /\ closeRes[FirstCall] = SubDrainFailure(2)
  /\ loop[1] = "exited" /\ loop[2] \in {"select", "handler"}

\* ---------------------------------------------------------------------------
\* C18.  A Close call that returned, returned nil exactly when every
\* subscriber of its range and the bridge were drained; then the bridge's
\* Drain was called once.  When only the bridge's Drain failed, Close returned
\* the wrapped bridge error with every subscriber drained, signalled and its
\* quit channel closed.
BridgeDrainSucceeded == bridge # "open"

C18_NilIffEveryDrainSucceeded ==
  HasReturned(FirstCall) =>
    LET subsDrained == \A s \in Ranged(FirstCall) : rawDrained[s]
    IN /\ closeRes[FirstCall] = Nil <=> (subsDrained /\ BridgeDrainSucceeded)
       /\ closeRes[FirstCall] = Nil => bridgeDrains = 1
       /\ subsDrained /\ ~BridgeDrainSucceeded =>
            /\ closeRes[FirstCall] =
                 Errorf("NATS Connection could not be closed", BridgeDrainFailure)
            /\ bridgeDrains = 1
            /\ \A s \in Ranged(FirstCall) :
                 quitSent[s] = 1 /\ chanClosed[s] /\ loop[s] = "exited"

\* Two subscribers were drained and signalled, and the bridge's Drain failed.
C18_Witness ==
  /\ HasReturned(FirstCall)
  /\ closeN[FirstCall] = 2
  /\ closeRes[FirstCall].cause = "bridge.Drain"
  /\ quitSent[1] = 1 /\ quitSent[2] = 1

====
